---- MODULE Spec2Model ----
(***************************************************************************)
(* testchart: fixture-based regression tester for rendered helm charts.    *)
(*                                                                         *)
(* The model covers the current implementation (the last `package main`    *)
(* of src/src/main.go, src/src/normalize.go and the Test / TestSuite code  *)
(* of src/src/normalize_test.go lines 68-674).                             *)
(*                                                                         *)
(* Text model.  A Go string is modelled as the sequence of its lines (the  *)
(* string is the lines joined by "\n"); the empty string is <<>> and a     *)
(* trailing newline is a trailing "" line.  Lines are atoms: white space   *)
(* inside a line is not modelled, so strings.TrimSpace strips blank lines  *)
(* at both ends of a text.                                                 *)
(*                                                                         *)
(* Three specifications:                                                   *)
(*   Spec      TestSuite.Run and runTests: dispatcher, workers, gate,      *)
(*             result slots, error channel, consumer loop, exit code.      *)
(*   TestSpec  one Test.Run unit of work, step by step, over enumerated    *)
(*             expected / actual manifests.                                *)
(*   TextSpec  splitManifest, normalizeManifest and normalizeYAML applied  *)
(*             to manifests built from enumerated lists of sections.       *)
(***************************************************************************)
EXTENDS Integers, Sequences, FiniteSets, TLC

\* ------------------------------------------------------------------------
\* Bounds of the model
\* ------------------------------------------------------------------------
MaxTests == 2
MaxConcurrency == 1
MaxSections == 2
MaxParts == 3

\* ------------------------------------------------------------------------
\* Alphabets
\* ------------------------------------------------------------------------
\* Source paths, listed in sort.Strings order.
SortedPaths == <<"a.yaml", "b.yaml">>
Paths == {SortedPaths[i] : i \in 1..Len(SortedPaths)}

\* Document lines.  "{a: 1}" is the flow-style spelling of "a: 1";
\* "a: [" does not parse.
UnparseableLines == {"a: ["}

\* One-document section bodies.
Bodies == {<<"a: 1">>, <<"{a: 1}">>, <<"a: 2">>, <<"a: [">>, <<"a: 2", "b: 2">>}

\* Ignore patterns given on the command line; "(" does not compile.
InvalidPatterns == {"("}
IgnoreOptions == {<<>>, <<"^a:">>, <<"(">>}

\* ------------------------------------------------------------------------
\* strings helpers
\* ------------------------------------------------------------------------
\* F applied to the value of v, v being evaluated once.
Let(v, F(_)) == CHOOSE r \in {F(x) : x \in {v}} : TRUE

Header(p) == "# Source: " \o p
IsHeader(line) == \E p \in Paths : line = Header(p)
PathOf(line) == CHOOSE p \in Paths : line = Header(p)

RECURSIVE TrimLeft(_)
TrimLeft(t) == IF t # <<>> /\ Head(t) = "" THEN TrimLeft(Tail(t)) ELSE t

RECURSIVE TrimRight(_)
TrimRight(t) ==
    IF t # <<>> /\ t[Len(t)] = "" THEN TrimRight(SubSeq(t, 1, Len(t) - 1)) ELSE t

\* strings.TrimSpace
TrimSpace(t) == TrimRight(TrimLeft(t))

\* Concatenation of two Go strings in the line model.
StrCat(x, y) ==
    IF x = <<>> THEN y
    ELSE IF y = <<>> THEN x
    ELSE SubSeq(x, 1, Len(x) - 1) \o <<x[Len(x)] \o Head(y)>> \o Tail(y)

\* regexp.MatchString for the modelled patterns.
MatchString(pattern, line) ==
    /\ pattern = "^a:"
    /\ line \in {"a: 1", "a: 2", "a: ["}

\* sort.Strings on a set of source paths.
RECURSIVE SortFrom(_, _)
SortFrom(S, i) ==
    IF i > Len(SortedPaths) THEN <<>>
    ELSE (IF SortedPaths[i] \in S THEN <<SortedPaths[i]>> ELSE <<>>) \o SortFrom(S, i + 1)
SortStringsDescending(S) ==
    LET sorted == SortFrom(S, 1)
    IN [i \in 1..Len(sorted) |-> sorted[Len(sorted) + 1 - i]]

SortStrings(S) == SortFrom(S, 1)

\* The iteration orders a Go `range` over a map with key set S can take.
Orders(S) ==
    {o \in [1..Cardinality(S) -> S] : \A i, j \in 1..Cardinality(S) : i # j => o[i] # o[j]}

\* ------------------------------------------------------------------------
\* splitManifest (main.go)
\* ------------------------------------------------------------------------
\* Positions where the delimiter "---\n# Source: " starts.
IsDelimiter(buffer, i) ==
    /\ i < Len(buffer)
    /\ buffer[i] = "---"
    /\ IsHeader(buffer[i + 1])

\* strings.SplitSeq(buffer, delimiter): the chunks, in order.  The chunk
\* after a delimiter starts with the rest of the header line, the path.
RECURSIVE SplitChunks(_, _, _)
SplitChunks(buffer, i, cur) ==
    IF i > Len(buffer) THEN <<cur>>
    ELSE IF IsDelimiter(buffer, i)
         THEN <<cur \o <<"">> >> \o SplitChunks(buffer, i + 2, <<PathOf(buffer[i + 1])>>)
         ELSE SplitChunks(buffer, i + 1, Append(cur, buffer[i]))

MapPutIfAbsent(m, k, v) ==
    [x \in DOMAIN m \cup {k} |-> IF x \in DOMAIN m THEN m[x] ELSE v]

MapPut(m, k, v) == [x \in DOMAIN m \cup {k} |-> IF x = k THEN v ELSE m[x]]
MapDelete(m, k) == [x \in DOMAIN m \ {k} |-> m[x]]
EmptyMap == [x \in {} |-> <<>>]

RECURSIVE SplitItems(_, _, _)
SplitItems(chunks, i, items0) ==
    IF i > Len(chunks) THEN items0
    ELSE Let(<<items0, TrimSpace(chunks[i])>>, LAMBDA a :
         LET items == a[1]
             chunk == a[2]
         IN IF chunk = <<>> \/ Len(chunk) < 2
            THEN SplitItems(chunks, i + 1, items)
            ELSE LET sourcePath == chunk[1]
                     body == TrimSpace(Tail(chunk))
                     content == IF sourcePath \in DOMAIN items
                                THEN items[sourcePath] \o <<"---">> \o body
                                ELSE body
                 IN SplitItems(chunks, i + 1, MapPut(items, sourcePath, content)))

splitManifest(buffer) == SplitItems(SplitChunks(buffer, 1, <<>>), 1, EmptyMap)

\* ------------------------------------------------------------------------
\* normalizeYAML, normalizeManifest (normalize.go)
\* ------------------------------------------------------------------------
EncodeLineToggle(line) ==
    IF line = "{a: 1}" THEN "a: 1" ELSE IF line = "a: 1" THEN "{a: 1}" ELSE line

\* The yaml.v3 decode / encode round trip of one line.
EncodeLine(line) == IF line = "{a: 1}" THEN "a: 1" ELSE line

RECURSIVE EncodeLines(_)
EncodeLines(t) ==
    IF t = <<>> THEN <<>>
    ELSE (IF Head(t) = "" THEN <<>> ELSE <<EncodeLine(Head(t))>>) \o EncodeLines(Tail(t))

normalizeYAMLRaw(content) ==
    IF \E i \in 1..Len(content) : content[i] \in UnparseableLines
    THEN [err |-> TRUE, text |-> <<>>]
    ELSE [err |-> FALSE, text |-> TrimSpace(content)]

normalizeYAML(content) ==
    IF \E i \in 1..Len(content) : content[i] \in UnparseableLines
    THEN [err |-> TRUE, text |-> <<>>]
    ELSE [err |-> FALSE, text |-> TrimSpace(EncodeLines(content))]

RECURSIVE NormalizeParts(_, _, _)
NormalizeParts(documents, sources, i) ==
    IF i > Len(sources) THEN [err |-> FALSE, text |-> <<>>]
    ELSE Let(<<normalizeYAML(documents[sources[i]]),
               NormalizeParts(documents, sources, i + 1)>>, LAMBDA a :
         LET n == a[1]
             rest == a[2]
             part == StrCat(<<"---", Header(sources[i]), "">>, n.text)
         IN IF n.err \/ rest.err THEN [err |-> TRUE, text |-> <<>>]
            ELSE [err |-> FALSE,
                  text |-> IF i = Len(sources) THEN part ELSE part \o rest.text])

normalizeManifest(manifest) ==
    Let(splitManifest(manifest), LAMBDA documents :
        NormalizeParts(documents, SortStrings(DOMAIN documents), 1))

\* ------------------------------------------------------------------------
\* Test (normalize_test.go, lines 92-270)
\* ------------------------------------------------------------------------
Item(source, expected, actual) ==
    [source |-> source, expected |-> expected, actual |-> actual]

\* NewTestSuite builds every Test with isSame = isValid = true.
NewTest(name, update) ==
    [name |-> name, isUpdate |-> update, updateType |-> "",
     isSame |-> TRUE, isValid |-> TRUE,
     differentItems |-> <<>>, missingItems |-> <<>>, extraItems |-> <<>>,
     validationErrors |-> <<>>, ignoredLines |-> <<>>]

SetTestComparisonResultTrue(test, isSame) == [test EXCEPT !.isSame = TRUE]

SetTestComparisonResult(test, isSame) == [test EXCEPT !.isSame = isSame]

SetUpdateType(test, updateType) == [test EXCEPT !.updateType = updateType]

AddValidationError(test, signature) ==
    [test EXCEPT !.validationErrors = Append(@, signature), !.isValid = FALSE]

AddDifferentItemSanitized(test, source, expected, actual) ==
    [test EXCEPT !.differentItems =
        Append(@, Item(source,
                       SelectSeq(expected, LAMBDA l : ~MatchString("^a:", l)),
                       SelectSeq(actual, LAMBDA l : ~MatchString("^a:", l))))]

AddDifferentItem(test, source, expected, actual) ==
    [test EXCEPT !.differentItems = Append(@, Item(source, expected, actual))]

AddMissingItem(test, source, expected) ==
    [test EXCEPT !.missingItems = Append(@, Item(source, expected, <<>>))]

AddExtraItem(test, source, actual) ==
    [test EXCEPT !.extraItems = Append(@, Item(source, <<>>, actual))]

AddIgnoredLine(test, line) == [test EXCEPT !.ignoredLines = Append(@, line)]

IsSuccessfulIgnoringValidity(test) == test.isSame

IsSuccessful(test) == test.isSame /\ test.isValid

\* ------------------------------------------------------------------------
\* compileIgnorePatterns, removeLinesMatchingPatterns, compareManifests
\* (main.go)
\* ------------------------------------------------------------------------
compileIgnorePatterns(ignoreExpressions) ==
    IF \E i \in 1..Len(ignoreExpressions) : ignoreExpressions[i] \in InvalidPatterns
    THEN [err |-> TRUE, patterns |-> <<>>]
    ELSE [err |-> FALSE, patterns |-> ignoreExpressions]

LineMatchesNever(line, ignorePatterns) == FALSE

LineMatches(line, ignorePatterns) ==
    \E i \in 1..Len(ignorePatterns) : MatchString(ignorePatterns[i], line)

\* The lines of the input that are kept.
RECURSIVE FilteredLines(_, _)
FilteredLines(input, ignorePatterns) ==
    IF input = <<>> THEN <<>>
    ELSE (IF LineMatches(Head(input), ignorePatterns) THEN <<>> ELSE <<Head(input)>>)
         \o FilteredLines(Tail(input), ignorePatterns)

\* The lines of the input that are handed to AddIgnoredLine, in order.
RECURSIVE MatchedLines(_, _)
MatchedLines(input, ignorePatterns) ==
    IF input = <<>> THEN <<>>
    ELSE (IF LineMatches(Head(input), ignorePatterns) THEN <<Head(input)>> ELSE <<>>)
         \o MatchedLines(Tail(input), ignorePatterns)

removeLinesMatchingPatterns(test, input, ignorePatterns) ==
    [test |-> [test EXCEPT !.ignoredLines = @ \o MatchedLines(input, ignorePatterns)],
     text |-> FilteredLines(input, ignorePatterns)]

\* The state of compareManifests between two loop iterations.
CompareState(builder, expected, actual, areEqual, err) ==
    [test |-> builder, expected |-> expected, actual |-> actual,
     areEqual |-> areEqual, err |-> err]

\* "Find missing items": range over expected in the order o.
RECURSIVE FindMissing(_, _, _)
FindMissing(st0, o, i) ==
    IF i > Len(o) THEN st0
    ELSE Let(st0, LAMBDA st :
         LET source == o[i]
         IN IF source \notin DOMAIN st.actual
            THEN FindMissing(
                     CompareState(AddMissingItem(st.test, source, st.expected[source]),
                                  MapDelete(st.expected, source), st.actual, FALSE, FALSE),
                     o, i + 1)
            ELSE FindMissing(st, o, i + 1))

\* "Find extra items": range over actual in the order o.
RECURSIVE FindExtra(_, _, _)
FindExtra(st0, o, i) ==
    IF i > Len(o) THEN st0
    ELSE Let(st0, LAMBDA st :
         LET source == o[i]
         IN IF source \notin DOMAIN st.expected
            THEN FindExtra(
                     CompareState(AddExtraItem(st.test, source, st.actual[source]),
                                  st.expected, MapDelete(st.actual, source), FALSE, FALSE),
                     o, i + 1)
            ELSE FindExtra(st, o, i + 1))

\* "Find different items": range over what is left of expected in the
\* order o; a normalization error returns at once.
RECURSIVE FindDifferent(_, _, _, _)
FindDifferent(st0, o, i, ignoreExpressions) ==
    IF i > Len(o) THEN st0
    ELSE Let(st0, LAMBDA st :
         LET source == o[i]
         IN IF source \notin DOMAIN st.actual
            THEN FindDifferent(st, o, i + 1, ignoreExpressions)
            ELSE Let(<<normalizeYAML(st.expected[source]),
                       normalizeYAML(st.actual[source])>>, LAMBDA n :
                 LET normalizedExpected == n[1]
                     normalizedActual == n[2]
                 IN IF normalizedExpected.err \/ normalizedActual.err
                    THEN CompareState(st.test, st.expected, st.actual, FALSE, TRUE)
                    ELSE Let(removeLinesMatchingPatterns(st.test, normalizedExpected.text,
                                                         ignoreExpressions),
                             LAMBDA sanitizedExpected :
                         Let(removeLinesMatchingPatterns(sanitizedExpected.test,
                                                         normalizedActual.text,
                                                         ignoreExpressions),
                             LAMBDA sanitizedActual :
                         LET differ == sanitizedExpected.text # sanitizedActual.text
                             builder ==
                                 IF differ
                                 THEN AddDifferentItem(sanitizedActual.test, source,
                                                       normalizedExpected.text,
                                                       normalizedActual.text)
                                 ELSE sanitizedActual.test
                         IN FindDifferent(
                                CompareState(builder, st.expected,
                                             MapDelete(st.actual, source),
                                             st.areEqual /\ ~differ, FALSE),
                                o, i + 1, ignoreExpressions)))))

\* compareManifests with the three map iterations taking the orders
\* o1 (expected), o2 (actual) and o3 (what is left of expected).
compareManifests(builder, expectedManifest, actualManifest, ignoreExpressions, o1, o2, o3) ==
    Let(FindDifferent(
            FindExtra(
                FindMissing(
                    CompareState(builder, splitManifest(expectedManifest),
                                 splitManifest(actualManifest), TRUE, FALSE),
                    o1, 1),
                o2, 1),
            o3, 1, ignoreExpressions),
        LAMBDA st : [test |-> st.test, isEqual |-> st.areEqual, err |-> st.err])

\* The iteration orders one call of compareManifests can take.
CompareOrders(expectedManifest, actualManifest) ==
    LET expected == DOMAIN splitManifest(expectedManifest)
        actual == DOMAIN splitManifest(actualManifest)
    IN Orders(expected) \X Orders(actual) \X Orders(expected \cap actual)

\* ------------------------------------------------------------------------
\* Test.Run (normalize_test.go, lines 113-238) and validateManifest
\* ------------------------------------------------------------------------
\* A file of the test directory.
NoFile == [exists |-> FALSE, data |-> <<>>]
FileOf(text) == [exists |-> TRUE, data |-> text]

\* fmt.Fprintln(&manifests, s) on an empty buffer.
Fprintln(s) == IF s = <<>> THEN <<"", "">> ELSE s \o <<"">>

\* fmt.Fprintf(&manifests, "---\n# Source: %s\n%s\n", m.Path, m.Manifest)
RECURSIVE AppendHooks(_, _, _)
AppendHooks(manifests, hooks, i) ==
    IF i > Len(hooks) THEN manifests
    ELSE AppendHooks(
             StrCat(manifests,
                    StrCat(<<"---", Header(hooks[i].Path), "">>,
                           Fprintln(hooks[i].Manifest))),
             hooks, i + 1)

\* "Combine regular manifests and hook manifests"
CombineManifests(release) ==
    AppendHooks(Fprintln(TrimSpace(release.Manifest)), release.Hooks, 1)

\* The body of `if test.isUpdate`: the classification and the write-back.
\* writeOk is the outcome of os.WriteFile, should it be called.
ClassifyFormattingFirst(test, isEqual, expectedManifest, actualManifest, file, writeOk) ==
    Let(normalizeManifest(actualManifest), LAMBDA normalized :
       LET normalizedActualManifest ==
               IF normalized.err THEN actualManifest ELSE normalized.text
           hasSemanticChanges == ~isEqual
           hasFormattingChanges == expectedManifest # normalizedActualManifest
       IN IF hasSemanticChanges \/ hasFormattingChanges
          THEN IF ~writeOk
               THEN [test |-> test, file |-> file, wrote |-> FALSE,
                     err |-> "writing updated expected.yaml file"]
               ELSE [test |-> SetUpdateType(test, IF hasFormattingChanges THEN "formatting"
                                                   ELSE "semantic"),
                     file |-> FileOf(normalizedActualManifest), wrote |-> TRUE,
                     err |-> ""]
          ELSE [test |-> SetUpdateType(test, "none"), file |-> file,
                wrote |-> FALSE, err |-> ""])

Classify(test, isEqual, expectedManifest, actualManifest, file, writeOk) ==
    Let(normalizeManifest(actualManifest), LAMBDA normalized :
       LET normalizedActualManifest ==
               IF normalized.err THEN actualManifest ELSE normalized.text
           hasSemanticChanges == ~isEqual
           hasFormattingChanges == expectedManifest # normalizedActualManifest
       IN IF hasSemanticChanges \/ hasFormattingChanges
          THEN IF ~writeOk
               THEN [test |-> test, file |-> file, wrote |-> FALSE,
                     err |-> "writing updated expected.yaml file"]
               ELSE [test |-> SetUpdateType(test, IF hasSemanticChanges THEN "semantic"
                                                   ELSE "formatting"),
                     file |-> FileOf(normalizedActualManifest), wrote |-> TRUE,
                     err |-> ""]
          ELSE [test |-> SetUpdateType(test, "none"), file |-> file,
                wrote |-> FALSE, err |-> ""])

UpdateExpectedAlways(test, isEqual, expectedManifest, actualManifest, file, writeOk) ==
    Classify(test, isEqual, expectedManifest, actualManifest, file, writeOk)

\* "Update expected?"
UpdateExpected(test, isEqual, expectedManifest, actualManifest, file, writeOk) ==
    IF ~test.isUpdate
    THEN [test |-> test, file |-> file, wrote |-> FALSE, err |-> ""]
    ELSE Classify(test, isEqual, expectedManifest, actualManifest, file, writeOk)

\* The results the validator hands back for one manifest: per resource a
\* status and whether Signature() succeeds.
Resource(status, signature) == [status |-> status, signature |-> signature]
ValidationOutcomes ==
    {[initErr |-> FALSE, results |-> <<>>],
     [initErr |-> FALSE, results |-> <<Resource("Valid", "Service/a")>>],
     [initErr |-> FALSE, results |-> <<Resource("Invalid", "Service/a")>>],
     [initErr |-> FALSE,
      results |-> <<Resource("Error", "Service/a"), Resource("Invalid", "Service/b")>>],
     [initErr |-> FALSE,
      results |-> <<Resource("Invalid", "Service/a"), Resource("Error", "")>>],
     [initErr |-> TRUE, results |-> <<>>]}

RECURSIVE ValidateResults(_, _, _)
ValidateResults(test, results, i) ==
    IF i > Len(results) THEN [test |-> test, err |-> ""]
    ELSE IF results[i].status \in {"Invalid", "Error"}
         THEN IF results[i].signature = ""
              THEN [test |-> test, err |-> "creating signature for invalid resource"]
              ELSE ValidateResults(AddValidationError(test, results[i].signature),
                                   results, i + 1)
         ELSE ValidateResults(test, results, i + 1)

validateManifest(test, outcome) ==
    IF outcome.initErr THEN [test |-> test, err |-> "initializing validator"]
    ELSE ValidateResults(test, outcome.results, 1)

\* What one call of Test.Run meets: the fault injected into its I/O and
\* collaborators ("" for none), the render result, the map iteration
\* orders of compareManifests and the validator's answer.
RunEnv(fault, rel, orders, outcome) ==
    [fault |-> fault, release |-> rel, orders |-> orders, outcome |-> outcome]

RunFaults == {"", "parsing test values file", "unifying values.yaml with schema",
              "rendering chart", "writing actual.yaml file for debug purposes",
              "writing updated expected.yaml file"}

RunResult(t, file, afile, wrote, err) ==
    [test |-> t, expectedFile |-> file, actualFile |-> afile, wrote |-> wrote, err |-> err]

\* Test.Run as a whole: the Test, expected.yaml and actual.yaml afterwards,
\* and the error returned.
TestRun(t, file, save, ignore, env) ==
    Let(CombineManifests(env.release), LAMBDA manifests :
    LET afile == IF save THEN FileOf(manifests) ELSE NoFile
        compiled == compileIgnorePatterns(ignore)
    IN IF env.fault \in {"parsing test values file", "unifying values.yaml with schema",
                         "rendering chart"}
       THEN RunResult(t, file, NoFile, FALSE, env.fault)
       ELSE IF save /\ env.fault = "writing actual.yaml file for debug purposes"
       THEN RunResult(t, file, NoFile, FALSE, env.fault)
       ELSE IF ~file.exists
       THEN RunResult(t, file, afile, FALSE, "reading expected.yaml file")
       ELSE IF compiled.err
       THEN RunResult(t, file, afile, FALSE, "compiling ignore patterns")
       ELSE Let(compareManifests(t, file.data, manifests, compiled.patterns,
                                 env.orders[1], env.orders[2], env.orders[3]),
                LAMBDA c :
       IF c.err
       THEN RunResult(c.test, file, afile, FALSE, "comparing manifests")
       ELSE Let(UpdateExpected(SetTestComparisonResult(c.test, c.isEqual), c.isEqual,
                               file.data, manifests, file,
                               env.fault # "writing updated expected.yaml file"),
                LAMBDA u :
       IF u.err # ""
       THEN RunResult(u.test, file, afile, FALSE, u.err)
       ELSE Let(validateManifest(u.test, env.outcome), LAMBDA v :
            RunResult(v.test, u.file, afile, u.wrote, v.err)))))

\* ------------------------------------------------------------------------
\* Inputs of the model
\* ------------------------------------------------------------------------
Section(p, body) == <<"---", Header(p)>> \o body

\* The manifests of exactly n sections.
RECURSIVE ManifestsOf(_)
ManifestsOf(n) ==
    IF n = 0 THEN {<<>>}
    ELSE {m \o Section(p, body) : m \in ManifestsOf(n - 1), p \in Paths, body \in Bodies}

ManifestsUpTo(n) == UNION {ManifestsOf(k) : k \in 0..n}

\* Number of sections of a generated manifest.
SectionCount(text) == Cardinality({i \in 1..Len(text) : IsDelimiter(text, i)})

\* The section bodies of TextSpec: also the empty body and a body between
\* blank lines.
TextBodies == Bodies \cup {<<>>, <<"", "a: 1", "">>}

\* The lists of at most n labelled sections, and the manifest each makes.
RECURSIVE SectionLists(_)
SectionLists(n) ==
    IF n = 0 THEN {<<>>}
    ELSE SectionLists(n - 1)
         \cup {Append(l, [path |-> p, body |-> b]) :
                  l \in {x \in SectionLists(n - 1) : Len(x) = n - 1},
                  p \in Paths, b \in TextBodies}

RECURSIVE Concatenate(_, _)
Concatenate(list, i) ==
    IF i > Len(list) THEN <<>>
    ELSE Section(list[i].path, list[i].body) \o Concatenate(list, i + 1)

\* The hooks a render can add.
HookOptions == {<<>>, <<[Path |-> "b.yaml", Manifest |-> <<"a: 2">>]>>}

\* ------------------------------------------------------------------------
\* State
\* ------------------------------------------------------------------------
VARIABLES
    \* both specifications
    saveActual,        \* the --save-actual flag
    ignorePatterns,    \* the --ignore flag
    \* TestSpec: one unit of work, Test.Run
    upc,               \* position in Test.Run
    test,              \* the *Test
    expectedFile,      \* tests/<name>/expected.yaml
    actualFile,        \* tests/<name>/actual.yaml
    release,           \* what installAction.Run returned
    actualManifest,    \* manifests.String()
    expectedManifest,  \* string(expectedBytes)
    ignoreExpressions, \* the compiled patterns
    isEqual,           \* what compareManifests returned
    writes,            \* number of os.WriteFile calls on expected.yaml that succeeded
    runErr,            \* the error Test.Run returned, "" for nil
    validated,         \* history: the results v.Validate returned
    \* Spec: runTests and TestSuite.Run
    mainpc,            \* position of the main goroutine
    isUpdate,          \* suite.IsUpdate
    concurrency,       \* opts.Concurrency
    tests,             \* suite.Tests
    files,             \* files[i]: tests/<name of test i>/expected.yaml
    next,              \* the dispatcher's loop index
    wpc,               \* wpc[i]: position of the worker of test i
    semaphore,         \* number of tokens in the semaphore channel
    results,           \* results[i]: content of the slot of test i
    e,                 \* content of the error channel
    cidx,              \* the consumer loop's index
    reported,          \* the tests PrintResult was called for, in call order
    fatal,             \* the error runTests returns to main, "" for nil
    finished,          \* history: what the workers sent, in the order of the sends
    exitCode,          \* the exit code of the process, once mainpc = "exited"
    written,           \* history: written[i]: number of writes of files[i]
    summary,           \* what PrintSummary printed
    banners,           \* the banners PrintResult printed, in call order
    \* TextSpec: the text functions
    sections,          \* the labelled sections the manifest is made of
    manifest,          \* the manifest
    items,             \* what splitManifest(manifest) returned
    normalized,        \* what normalizeManifest(manifest) returned
    content,           \* the content of one source
    once,              \* what normalizeYAML(content) returned
    twice              \* what normalizeYAML returned on the text of once

cvars == <<saveActual, ignorePatterns>>

uvars == <<upc, test, expectedFile, actualFile, release,
           actualManifest, expectedManifest, ignoreExpressions, isEqual, writes, runErr,
           validated>>

svars == <<mainpc, isUpdate, concurrency, tests, files, next, wpc, semaphore, results,
           e, cidx, reported, fatal, finished, exitCode, written, summary,
           banners>>

tvars == <<sections, manifest, items, normalized, content, once, twice>>

vars == <<cvars, uvars, svars, tvars>>

NoRelease == [Manifest |-> <<>>, Hooks |-> <<>>]

\* A call that was not made, and what a call returned.
NotCalled == [done |-> FALSE, err |-> FALSE, value |-> <<>>]
Returned(err, value) == [done |-> TRUE, err |-> err, value |-> value]

\* The text functions are not called on their own in Spec and TestSpec.
NoText ==
    /\ sections = <<>>
    /\ manifest = <<>>
    /\ items = NotCalled
    /\ normalized = NotCalled
    /\ content = <<>>
    /\ once = NotCalled
    /\ twice = NotCalled

\* ------------------------------------------------------------------------
\* TestSuite tallies and PrintSummary (normalize_test.go, lines 443-568)
\* ------------------------------------------------------------------------
TotalSuccessful(suiteTests) ==
    Cardinality({i \in 1..Len(suiteTests) : IsSuccessful(suiteTests[i])})

\* Number of tests of the suite whose update type is one of `types`.
Count(suiteTests, types) ==
    Cardinality({i \in 1..Len(suiteTests) : suiteTests[i].updateType \in types})

Updates(suiteTests) ==
    [Formatting |-> Count(suiteTests, {"formatting"}),
     Semantic |-> Count(suiteTests, {"semantic"}),
     None |-> Len(suiteTests) - Count(suiteTests, {"formatting", "semantic"})]

\* A line of the summary: the message and the numbers printed in it, -1
\* for a number the message does not hold.
NotPrinted == -1
Line(message, total, updated, semantic, formatting, unchanged, failed) ==
    [message |-> message, total |-> total, updated |-> updated, semantic |-> semantic,
     formatting |-> formatting, unchanged |-> unchanged, failed |-> failed]
NoSummary == Line("", NotPrinted, NotPrinted, NotPrinted, NotPrinted, NotPrinted, NotPrinted)

PrintSummary(suiteTests, update) ==
    LET n == NotPrinted
        total == Len(suiteTests)
        stats == Updates(suiteTests)
        updated == stats.Formatting + stats.Formatting
        unchanged == stats.None
    IN IF total = 0
       THEN IF update THEN Line("No expected files to update", n, n, n, n, n, n)
            ELSE Line("No tests were run", n, n, n, n, n, n)
       ELSE IF update
       THEN IF updated = 0
            THEN Line("All expected files unchanged", total, n, n, n, n, n)
            ELSE IF stats.Semantic > 0 /\ stats.Formatting > 0
            THEN Line("Updated expected files", n, updated, stats.Semantic, stats.Formatting,
                      IF unchanged = 0 THEN n ELSE unchanged, n)
            ELSE IF stats.Semantic > 0
            THEN Line("Updated expected files with content changes", n, n, stats.Semantic, n,
                      IF unchanged = 0 THEN n ELSE unchanged, n)
            ELSE Line("Normalized formatting in expected files", n, n, n, stats.Formatting,
                      IF unchanged = 0 THEN n ELSE unchanged, n)
       ELSE IF \A i \in 1..total : IsSuccessful(suiteTests[i])
            THEN Line("All tests passed", total, n, n, n, n, n)
            ELSE Line("tests failed", total, n, n, n, n, total - TotalSuccessful(suiteTests))

\* ------------------------------------------------------------------------
\* TestSpec: Test.Run step by step
\* ------------------------------------------------------------------------
\* The suite does not exist in TestSpec.
NoSuite ==
    /\ mainpc = "none"
    /\ isUpdate = FALSE
    /\ concurrency = 0
    /\ tests = <<>>
    /\ files = <<>>
    /\ next = 0
    /\ wpc = <<>>
    /\ semaphore = 0
    /\ results = <<>>
    /\ e = <<>>
    /\ cidx = 0
    /\ reported = <<>>
    /\ fatal = ""
    /\ finished = <<>>
    /\ exitCode = 0
    /\ written = <<>>
    /\ summary = NoSummary
    /\ banners = <<>>

UInit ==
    /\ NoSuite
    /\ NoText
    /\ upc = "loadValues"
    /\ \E update \in BOOLEAN : test = NewTest(1, update)
    /\ saveActual \in BOOLEAN
    /\ ignorePatterns \in IgnoreOptions
    /\ expectedFile \in {NoFile} \cup {FileOf(m) : m \in ManifestsUpTo(MaxSections)}
    /\ actualFile = NoFile
    /\ release = NoRelease
    /\ actualManifest = <<>>
    /\ expectedManifest = <<>>
    /\ ignoreExpressions = <<>>
    /\ isEqual = TRUE
    /\ writes = 0
    /\ runErr = ""
    /\ validated = <<>>

UFail(msg) ==
    /\ upc' = "failed"
    /\ runErr' = msg

\* loadValuesFile, standardizeTree, schema.Unify
LoadValues ==
    /\ upc = "loadValues"
    /\ UNCHANGED svars
    /\ \/ /\ upc' = "render"
          /\ UNCHANGED runErr
       \/ UFail("parsing test values file")
       \/ UFail("unifying values.yaml with schema")
    /\ UNCHANGED <<cvars, tvars, validated, test, expectedFile, actualFile, release,
                   actualManifest, expectedManifest, ignoreExpressions, isEqual, writes>>

\* installAction.Run, then the combination of the manifest and the hooks
Render ==
    /\ upc = "render"
    /\ UNCHANGED svars
    /\ \/ /\ \E m \in ManifestsUpTo(MaxSections - SectionCount(expectedFile.data)),
                hooks \in HookOptions :
                /\ release' = [Manifest |-> m, Hooks |-> hooks]
                /\ actualManifest' = CombineManifests(release')
          /\ upc' = "saveActual"
          /\ UNCHANGED runErr
       \/ /\ UFail("rendering chart")
          /\ UNCHANGED <<release, actualManifest>>
    /\ UNCHANGED <<cvars, tvars, validated, test, expectedFile, actualFile,
                   expectedManifest, ignoreExpressions, isEqual, writes>>

\* "Save actual.yaml for troubleshooting purposes"
SaveActual ==
    /\ upc = "saveActual"
    /\ UNCHANGED svars
    /\ \/ /\ ~saveActual
          /\ upc' = "readExpected"
          /\ UNCHANGED <<actualFile, runErr>>
       \/ /\ saveActual
          /\ actualFile' = FileOf(actualManifest)
          /\ upc' = "readExpected"
          /\ UNCHANGED runErr
       \/ /\ saveActual
          /\ UFail("writing actual.yaml file for debug purposes")
          /\ UNCHANGED actualFile
    /\ UNCHANGED <<cvars, tvars, validated, test, expectedFile, release,
                   actualManifest, expectedManifest, ignoreExpressions, isEqual, writes>>

\* "Read expected.yaml"
ReadExpected ==
    /\ upc = "readExpected"
    /\ UNCHANGED svars
    /\ \/ /\ expectedFile.exists
          /\ expectedManifest' = expectedFile.data
          /\ upc' = "compile"
          /\ UNCHANGED runErr
       \/ /\ ~expectedFile.exists
          /\ UFail("reading expected.yaml file")
          /\ UNCHANGED expectedManifest
    /\ UNCHANGED <<cvars, tvars, validated, test, expectedFile, actualFile, release,
                   actualManifest, ignoreExpressions, isEqual, writes>>

\* "Compile ignore patterns to regular expressions"
CompileIgnore ==
    /\ upc = "compile"
    /\ UNCHANGED svars
    /\ LET c == compileIgnorePatterns(ignorePatterns)
       IN \/ /\ ~c.err
             /\ ignoreExpressions' = c.patterns
             /\ upc' = "compare"
             /\ UNCHANGED runErr
          \/ /\ c.err
             /\ UFail("compiling ignore patterns")
             /\ UNCHANGED ignoreExpressions
    /\ UNCHANGED <<cvars, tvars, validated, test, expectedFile, actualFile, release,
                   actualManifest, expectedManifest, isEqual, writes>>

\* "Compare manifests"
Compare ==
    /\ upc = "compare"
    /\ UNCHANGED svars
    /\ \E o \in CompareOrders(expectedManifest, actualManifest) :
         \E c \in {compareManifests(test, expectedManifest, actualManifest,
                                    ignoreExpressions, o[1], o[2], o[3])} :
            /\ isEqual' = c.isEqual
            /\ \/ /\ ~c.err
                  /\ test' = SetTestComparisonResult(c.test, c.isEqual)
                  /\ upc' = "update"
                  /\ UNCHANGED runErr
               \/ /\ c.err
                  /\ test' = c.test
                  /\ UFail("comparing manifests")
    /\ UNCHANGED <<cvars, tvars, validated, expectedFile, actualFile, release,
                   actualManifest, expectedManifest, ignoreExpressions, writes>>

\* "Update expected?"
Update ==
    /\ upc = "update"
    /\ UNCHANGED svars
    /\ \E writeOk \in BOOLEAN :
         \E u \in {UpdateExpected(test, isEqual, expectedManifest, actualManifest,
                                  expectedFile, writeOk)} :
            /\ test' = u.test
            /\ expectedFile' = u.file
            /\ writes' = IF u.wrote THEN writes + 1 ELSE writes
            /\ \/ /\ u.err = ""
                  /\ upc' = "validate"
                  /\ UNCHANGED runErr
               \/ /\ u.err # ""
                  /\ UFail(u.err)
    /\ UNCHANGED <<cvars, tvars, validated, actualFile, release,
                   actualManifest, expectedManifest, ignoreExpressions, isEqual>>

\* "Validate"
Validate ==
    /\ upc = "validate"
    /\ UNCHANGED svars
    /\ \E outcome \in ValidationOutcomes :
         \E v \in {validateManifest(test, outcome)} :
            /\ test' = v.test
            /\ validated' = outcome.results
            /\ \/ /\ v.err = ""
                  /\ upc' = "done"
                  /\ UNCHANGED runErr
               \/ /\ v.err # ""
                  /\ UFail(v.err)
    /\ UNCHANGED <<cvars, tvars, expectedFile, actualFile, release,
                   actualManifest, expectedManifest, ignoreExpressions, isEqual, writes>>

UNext ==
    \/ LoadValues
    \/ Render
    \/ SaveActual
    \/ ReadExpected
    \/ CompileIgnore
    \/ Compare
    \/ Update
    \/ Validate

TestSpec == UInit /\ [][UNext]_vars

\* ------------------------------------------------------------------------
\* Spec: runTests (main.go) and TestSuite.Run (normalize_test.go, 585-674)
\* ------------------------------------------------------------------------
\* The unit of work of TestSpec does not exist in Spec.
NoUnit ==
    /\ upc = "none"
    /\ test = NewTest(0, FALSE)
    /\ expectedFile = NoFile
    /\ actualFile = NoFile
    /\ release = NoRelease
    /\ actualManifest = <<>>
    /\ expectedManifest = <<>>
    /\ ignoreExpressions = <<>>
    /\ isEqual = TRUE
    /\ writes = 0
    /\ runErr = ""
    /\ validated = <<>>

\* The fixtures and renders of the suite's tests.
SuiteFiles ==
    {NoFile,
     FileOf(Section("a.yaml", <<"a: 1">>)),
     FileOf(Section("a.yaml", <<"{a: 1}">>))}
SuiteReleases ==
    {[Manifest |-> Section("a.yaml", <<"a: 1">>), Hooks |-> <<>>],
     [Manifest |-> Section("a.yaml", <<"a: 2">>), Hooks |-> <<>>]}
SuiteOutcomes == {o \in ValidationOutcomes : Len(o.results) <= 1}
SuiteFaults == {"", "rendering chart", "writing updated expected.yaml file"}

TotalLength == Len(tests)

CapacityIgnoringLimit(c, n) == n

\* The capacity of the semaphore channel.
Capacity(c, n) == IF c <= 0 THEN n ELSE c

SuiteIsSuccessful == \A i \in 1..Len(tests) : IsSuccessful(tests[i])

Init ==
    /\ NoUnit
    /\ NoText
    /\ saveActual = FALSE
    /\ ignorePatterns \in {<<>>, <<"(">>}
    /\ mainpc = "start"
    /\ isUpdate \in BOOLEAN
    /\ concurrency \in 0..MaxConcurrency
    /\ tests = <<>>
    /\ \E n \in 0..MaxTests, f \in SuiteFiles : files = [i \in 1..n |-> f]
    /\ next = 1
    /\ wpc = [i \in 1..Len(files) |-> "idle"]
    /\ semaphore = 0
    /\ results = [i \in 1..Len(files) |-> <<>>]
    /\ e = <<>>
    /\ cidx = 1
    /\ reported = <<>>
    /\ fatal = ""
    /\ finished = <<>>
    /\ exitCode = 0
    /\ written = [i \in 1..Len(files) |-> 0]
    /\ summary = NoSummary
    /\ banners = <<>>

\* runTests up to the call of suite.Run: the tests directory, the cue
\* schema, the test names, NewTestSuite.
StartRun ==
    /\ mainpc = "start"
    /\ \/ /\ Len(files) = 0
          /\ mainpc' = "exited"
          /\ exitCode' = 0
          /\ UNCHANGED tests
          /\ UNCHANGED fatal
       \/ /\ mainpc' = "exited"
          /\ fatal' = "loading cue schema"
          /\ exitCode' = 1
          /\ UNCHANGED tests
       \/ /\ mainpc' = "run"
          /\ tests' = [i \in 1..Len(files) |-> NewTest(i, isUpdate)]
          /\ UNCHANGED <<exitCode, fatal>>
    /\ UNCHANGED <<cvars, tvars, uvars, summary, banners, written, isUpdate, concurrency,
                   files, next, wpc, semaphore,
                   results, e, cidx, reported, finished>>

Alive == mainpc \in {"run", "returned"}

\* The dispatcher goroutine: acquire the semaphore, start the worker.
Dispatch ==
    /\ Alive
    /\ next <= TotalLength
    /\ semaphore < Capacity(concurrency, TotalLength)
    /\ semaphore' = semaphore + 1
    /\ wpc' = [wpc EXCEPT ![next] = "running"]
    /\ next' = next + 1
    /\ UNCHANGED <<cvars, tvars, uvars, summary, banners, written, mainpc, isUpdate,
                   concurrency, tests, files, results, e,
                   cidx, reported, fatal, finished, exitCode>>

DeliverAndFillSlot(i, err) ==
    /\ finished' = Append(finished, [test |-> i, error |-> err])
    /\ results' = [results EXCEPT ![i] = Append(@, i)]
    /\ e' = IF err # "" THEN Append(e, [test |-> i, error |-> err]) ELSE e

\* make(chan *Test, 1): the capacity of a result slot.
SlotCapacity == 1

ErrorCapacityUnbuffered(n) == 0

\* make(chan error, suite.TotalLength()): the capacity of e.
ErrorCapacity(n) == n

\* What the worker sends once its work is over: the error on e, or the
\* test on its own slot. A send waits while its channel is full.
Deliver(i, err) ==
    /\ finished' = Append(finished, [test |-> i, error |-> err])
    /\ IF err # ""
       THEN /\ Len(e) < ErrorCapacity(TotalLength)
            /\ e' = Append(e, [test |-> i, error |-> err])
            /\ UNCHANGED results
       ELSE /\ Len(results[i]) < SlotCapacity
            /\ results' = [results EXCEPT ![i] = Append(@, i)]
            /\ UNCHANGED e

CapturedFirst(i) == 1

\* The test the worker closure started in iteration i of the dispatcher
\* loop holds: the `test` of that iteration.
Captured(i) == i

ExpectedPathShared(i) == 1

\* filepath.Join(rootPath, test.name, "expected.yaml"): the file of test i,
\* the test names being distinct.
ExpectedPath(i) == i

\* The worker of test i: load the chart, test.Run, send.
RunTest(i) ==
    /\ Alive
    /\ wpc[i] = "running"
    /\ \/ /\ Deliver(i, "loading chart")
          /\ UNCHANGED <<tests, files, written>>
       \/ \E fault \in SuiteFaults, rel \in SuiteReleases, outcome \in SuiteOutcomes :
            \E t \in {Captured(i)} :
            \E o \in CompareOrders(files[ExpectedPath(t)].data, CombineManifests(rel)) :
              \E r \in {TestRun(tests[t], files[ExpectedPath(t)], saveActual,
                                ignorePatterns, RunEnv(fault, rel, o, outcome))} :
                 /\ tests' = [tests EXCEPT ![t] = r.test]
                 /\ files' = [files EXCEPT ![ExpectedPath(t)] = r.expectedFile]
                 /\ written' = [written EXCEPT ![ExpectedPath(t)] =
                                   IF r.wrote THEN @ + 1 ELSE @]
                 /\ Deliver(i, r.err)
    /\ wpc' = [wpc EXCEPT ![i] = "sent"]
    /\ UNCHANGED <<cvars, tvars, uvars, summary, banners, mainpc, isUpdate, concurrency, next,
                   semaphore, cidx,
                   reported, fatal, exitCode>>

\* The worker's deferred release of the semaphore.
Release(i) ==
    /\ Alive
    /\ wpc[i] = "sent"
    /\ semaphore' = semaphore - 1
    /\ wpc' = [wpc EXCEPT ![i] = "done"]
    /\ UNCHANGED <<cvars, tvars, uvars, summary, banners, written, mainpc, isUpdate,
                   concurrency, tests, files, next,
                   results, e, cidx, reported, fatal, finished, exitCode>>

\* The banner of Test.PrintResult.
Banner(t) ==
    IF t.isSame /\ t.isValid
    THEN IF t.isUpdate
         THEN IF t.updateType = "formatting" THEN "Normalized formatting in expected file"
              ELSE "Nothing to update in expected file"
         ELSE "Passed"
    ELSE IF t.isUpdate
         THEN IF t.updateType = "semantic"
              THEN "Updated expected file with content changes"
              ELSE IF t.updateType = "formatting"
              THEN "Normalized formatting in expected file"
              ELSE "Updated expected file"
         ELSE IF ~t.isValid THEN "Failed Invalid" ELSE "Failed"

\* Test.PrintResult: fails when the values are to be shown and cannot be
\* computed; empties the ignored-line trail it has printed.
PrintResult(t, showValues, showAllValues, valuesOk) ==
    IF (showAllValues \/ (showValues /\ (~t.isSame \/ ~t.isValid))) /\ ~valuesOk
    THEN [test |-> t, banner |-> Banner(t), err |-> "failed to get values yaml"]
    ELSE [test |-> [t EXCEPT !.ignoredLines = <<>>], banner |-> Banner(t), err |-> ""]

AnyFilledSlot(idx, res) ==
    IF res[idx] = <<>> /\ (\E j \in DOMAIN res : res[j] # <<>>)
    THEN CHOOSE j \in DOMAIN res : res[j] # <<>>
    ELSE idx

\* The slot the consumer loop waits on in iteration idx.
Slot(idx, res) == idx

\* The consumer loop, `case err := <-e`
ConsumeError ==
    /\ mainpc = "run"
    /\ cidx <= TotalLength
    /\ e # <<>>
    /\ fatal' = Head(e).error
    /\ e' = Tail(e)
    /\ mainpc' = "returned"
    /\ UNCHANGED <<cvars, tvars, uvars, summary, banners, written, isUpdate, concurrency,
                   tests, files, next, wpc,
                   semaphore, results, cidx, reported, finished, exitCode>>

\* The consumer loop, `case test := <-result`
ConsumeResult ==
    /\ mainpc = "run"
    /\ cidx <= TotalLength
    /\ results[Slot(cidx, results)] # <<>>
    /\ \E showValues, showAllValues, valuesOk \in BOOLEAN :
         \E i \in {Head(results[Slot(cidx, results)])} :
         \E p \in {PrintResult(tests[i], showValues, showAllValues, valuesOk)} :
            /\ results' = [results EXCEPT ![Slot(cidx, results)] = Tail(@)]
            /\ reported' = Append(reported, i)
            /\ banners' = Append(banners, p.banner)
            /\ tests' = [tests EXCEPT ![i] = p.test]
            /\ \/ /\ p.err = ""
                  /\ cidx' = cidx + 1
                  /\ UNCHANGED <<mainpc, fatal>>
               \/ /\ p.err # ""
                  /\ fatal' = "failed to finalize test"
                  /\ mainpc' = "returned"
                  /\ UNCHANGED cidx
    /\ UNCHANGED <<cvars, tvars, uvars, summary, written, isUpdate, concurrency, files,
                   next, wpc, semaphore, e, finished, exitCode>>

\* The consumer loop is over: return nil
ReturnNil ==
    /\ mainpc = "run"
    /\ cidx > TotalLength
    /\ mainpc' = "returned"
    /\ UNCHANGED <<cvars, tvars, uvars, summary, banners, written, isUpdate, concurrency,
                   tests, files, next, wpc, semaphore,
                   results, e, cidx, reported, fatal, finished, exitCode>>

\* runTests after suite.Run: the error goes to log.Fatal; else the summary
\* and os.Exit(1) unless the suite is successful.
Exit ==
    /\ mainpc = "returned"
    /\ mainpc' = "exited"
    /\ summary' = IF fatal # "" THEN NoSummary ELSE PrintSummary(tests, isUpdate)
    /\ exitCode' = IF fatal # "" THEN 1
                   ELSE IF ~SuiteIsSuccessful THEN 1 ELSE 0
    /\ UNCHANGED <<cvars, tvars, uvars, written, banners, isUpdate, concurrency, tests,
                   files, next, wpc, semaphore, results, e, cidx, reported, fatal, finished>>

Next ==
    \/ StartRun
    \/ Dispatch
    \/ \E i \in 1..Len(files) : RunTest(i)
    \/ \E i \in 1..Len(files) : Release(i)
    \/ ConsumeError
    \/ ConsumeResult
    \/ ReturnNil
    \/ Exit

Spec == Init /\ [][Next]_vars

\* The goroutines of TestSuite.Run are scheduled: the dispatcher, every
\* worker (its unit of work terminates) and the consumer loop go on while
\* they can. Nothing makes runTests exit.
Fairness ==
    /\ WF_vars(Dispatch)
    /\ \A i \in 1..MaxTests : WF_vars(i <= Len(files) /\ RunTest(i))
    /\ \A i \in 1..MaxTests : WF_vars(i <= Len(files) /\ Release(i))
    /\ WF_vars(ConsumeError \/ ConsumeResult \/ ReturnNil)

LiveSpec == Init /\ [][Next]_vars /\ Fairness

\* ------------------------------------------------------------------------
\* TextSpec: splitManifest, normalizeManifest, normalizeYAML
\* ------------------------------------------------------------------------
TInit ==
    /\ NoSuite
    /\ NoUnit
    /\ saveActual = FALSE
    /\ ignorePatterns = <<>>
    /\ sections \in SectionLists(MaxParts)
    /\ manifest = Concatenate(sections, 1)
    /\ items = NotCalled
    /\ normalized = NotCalled
    /\ content = <<>>
    /\ once = NotCalled
    /\ twice = NotCalled

\* splitManifest(manifest)
Split ==
    /\ ~items.done
    /\ items' = Returned(FALSE, splitManifest(manifest))
    /\ UNCHANGED <<cvars, uvars, svars, sections, manifest, normalized, content, once, twice>>

\* normalizeManifest(manifest)
NormalizeManifest ==
    /\ ~normalized.done
    /\ \E n \in {normalizeManifest(manifest)} : normalized' = Returned(n.err, n.text)
    /\ UNCHANGED <<cvars, uvars, svars, sections, manifest, items, content, once, twice>>

\* normalizeYAML on the content of one source of the split manifest
NormalizeContent ==
    /\ items.done
    /\ ~once.done
    /\ \E source \in DOMAIN items.value :
         /\ content' = items.value[source]
         /\ \E n \in {normalizeYAML(content')} : once' = Returned(n.err, n.text)
    /\ UNCHANGED <<cvars, uvars, svars, sections, manifest, items, normalized, twice>>

\* normalizeYAML on what normalizeYAML returned
NormalizeAgain ==
    /\ once.done
    /\ ~once.err
    /\ ~twice.done
    /\ \E n \in {normalizeYAML(once.value)} : twice' = Returned(n.err, n.text)
    /\ UNCHANGED <<cvars, uvars, svars, sections, manifest, items, normalized, content, once>>

TNext ==
    \/ Split
    \/ NormalizeManifest
    \/ NormalizeContent
    \/ NormalizeAgain

TextSpec == TInit /\ [][TNext]_vars

\* ------------------------------------------------------------------------
\* Properties of Spec
\* ------------------------------------------------------------------------
\* The errors the workers sent, in the order of the sends.
SentErrors == SelectSeq(finished, LAMBDA m : m.error # "")

\* Number of units of work admitted by the gate and not yet released.
InFlight == Cardinality({i \in DOMAIN wpc : wpc[i] \in {"running", "sent"}})

\* C1: PrintResult is called for the tests in the submission order of
\* suite.Tests, whatever the completion order of the workers: the k-th
\* report is the report of test k.
C1_ReportOrder == \A k \in 1..Len(reported) : reported[k] = k

\* Test 2 finished first, and the reports still came as 1, 2.
C1_Witness ==
    /\ reported = <<1, 2>>
    /\ Len(finished) = 2
    /\ finished[1].test = 2

\* C2: with a positive concurrency limit, the units of work admitted and
\* not yet released are never more than the limit.
C2_GateBound == concurrency > 0 => InFlight <= concurrency

\* The gate is full: test 1 holds the only token, test 2 waits for it.
C2_Witness ==
    /\ concurrency = 1
    /\ TotalLength = 2
    /\ wpc[1] = "sent"
    /\ wpc[2] = "idle"
    /\ next = 2

\* C3: a failing unit of work sends its error on e and never fills its
\* slot; once a unit has failed TestSuite.Run returns an error, the first
\* sent on e unless PrintResult failed before; Run returns nil only when
\* every test filled its slot and was reported.
C3_ErrorPropagation ==
    /\ \A k \in 1..Len(finished) :
         finished[k].error # "" =>
             /\ results[finished[k].test] = <<>>
             /\ \A j \in 1..Len(reported) : reported[j] # finished[k].test
    /\ Len(e) <= Len(SentErrors)
    /\ e = SubSeq(SentErrors, Len(SentErrors) - Len(e) + 1, Len(SentErrors))
    /\ mainpc = "returned" =>
         /\ SentErrors # <<>> => fatal # ""
         /\ fatal # "" =>
              \/ fatal = "failed to finalize test"
              \/ SentErrors # <<>> /\ fatal = SentErrors[1].error
         /\ fatal = "" =>
              /\ Len(reported) = TotalLength
              /\ \A k \in 1..TotalLength : reported[k] = k
              /\ \A k \in 1..Len(finished) : finished[k].error = ""

\* Test 1 was reported, then the render error of test 2 ended the run.
C3_Witness ==
    /\ mainpc = "returned"
    /\ fatal = "rendering chart"
    /\ reported = <<1>>
    /\ Len(SentErrors) = 1
    /\ SentErrors[1].test = 2

\* C4: in run mode, when the suite run ends without a fatal error, the
\* exit code is 0 if and only if every test is same and valid.
C4_RunExitCode ==
    (mainpc = "exited" /\ ~isUpdate /\ fatal = "") =>
        (exitCode = 0 <=> \A i \in 1..Len(tests) : tests[i].isSame /\ tests[i].isValid)

\* Every comparison passed and one test is invalid: exit code 1.
C4_Witness ==
    /\ mainpc = "exited"
    /\ ~isUpdate
    /\ fatal = ""
    /\ Len(tests) = 2
    /\ exitCode = 1
    /\ tests[1].isSame /\ tests[1].isValid
    /\ tests[2].isSame /\ ~tests[2].isValid

\* C5: in update mode, when no fatal error occurs, the exit code is 0
\* whatever was rewritten.
C5_UpdateExitsZero ==
    (mainpc = "exited" /\ isUpdate /\ fatal = "") => exitCode = 0

\* ------------------------------------------------------------------------
\* Properties of TestSpec
\* ------------------------------------------------------------------------
\* The classification step of an update run is over.
Classified == test.isUpdate /\ upc \in {"validate", "done"}

\* compareManifests has returned.
Compared ==
    \/ upc \in {"update", "validate", "done"}
    \/ upc = "failed" /\ runErr = "comparing manifests"

SourceSet(list) == {list[i].source : i \in 1..Len(list)}

\* How often a source path is reported in the three lists.
Reports(p) ==
    Cardinality({i \in 1..Len(test.missingItems) : test.missingItems[i].source = p})
    + Cardinality({i \in 1..Len(test.extraItems) : test.extraItems[i].source = p})
    + Cardinality({i \in 1..Len(test.differentItems) : test.differentItems[i].source = p})

\* The two contents of a source compare equal: the normalized texts
\* without their ignored lines, the raw trimmed texts when one of them
\* does not normalize.
ComparesEqual(expectedContent, actualContent) ==
    LET ne == normalizeYAML(expectedContent)
        na == normalizeYAML(actualContent)
    IN IF ne.err \/ na.err
       THEN TrimSpace(expectedContent) = TrimSpace(actualContent)
       ELSE FilteredLines(ne.text, ignoreExpressions)
            = FilteredLines(na.text, ignoreExpressions)

\* C6, as stated: in update mode the type is Semantic when isEqual is
\* false, else Formatting when the normalized actual manifest differs from
\* the stored expected.yaml, else None; in the first two cases the
\* normalized actual manifest is written, in the last nothing is.
C6_ClassificationAsStated ==
    Classified =>
        LET n == normalizeManifest(actualManifest)
        IN IF ~isEqual
           THEN /\ test.updateType = "semantic"
                /\ ~n.err
                /\ expectedFile = FileOf(n.text)
                /\ writes = 1
           ELSE IF n.text # expectedManifest
           THEN /\ test.updateType = "formatting"
                /\ ~n.err
                /\ expectedFile = FileOf(n.text)
                /\ writes = 1
           ELSE /\ test.updateType = "none"
                /\ expectedFile = FileOf(expectedManifest)
                /\ writes = 0

\* The text an update writes: the normalized actual manifest, the raw
\* actual manifest when it does not normalize.
TextToWrite ==
    LET n == normalizeManifest(actualManifest)
    IN IF n.err THEN actualManifest ELSE n.text

\* C6, amended: same priority, the text written being the normalized
\* actual manifest or, when normalizeManifest fails on the actual manifest,
\* the raw actual manifest.
C6_Classification ==
    Classified =>
        IF ~isEqual
        THEN /\ test.updateType = "semantic"
             /\ expectedFile = FileOf(TextToWrite)
             /\ writes = 1
        ELSE IF TextToWrite # expectedManifest
        THEN /\ test.updateType = "formatting"
             /\ expectedFile = FileOf(TextToWrite)
             /\ writes = 1
        ELSE /\ test.updateType = "none"
             /\ expectedFile = FileOf(expectedManifest)
             /\ writes = 0

\* A semantic update whose actual manifest does not normalize: the raw
\* actual manifest was written.
C6_Witness ==
    /\ Classified
    /\ ~isEqual
    /\ normalizeManifest(actualManifest).err
    /\ test.updateType = "semantic"
    /\ expectedFile = FileOf(actualManifest)

\* C7: in run mode no step of Test.Run writes expected.yaml or sets an
\* update type.
C7_RunModeNoWrite ==
    [][~test.isUpdate =>
          /\ expectedFile' = expectedFile
          /\ test'.updateType = ""
          /\ writes' = 0]_vars

\* A run-mode unit of work is over, the comparison failed, the manifest
\* is invalid, actual.yaml was saved: expected.yaml is what was read.
C7_Witness ==
    /\ upc = "done"
    /\ ~test.isUpdate
    /\ ~test.isSame
    /\ ~test.isValid
    /\ actualFile.exists
    /\ expectedFile = FileOf(expectedManifest)
    /\ test.updateType = ""

\* C8: once compareManifests has returned, every source path of the two
\* split maps is in exactly one of: Missing (in expected only), Extra (in
\* actual only), Different, equal and unreported; none is reported twice.
C8_Totality ==
    Compared =>
        LET expected == splitManifest(expectedManifest)
            actual == splitManifest(actualManifest)
        IN \A p \in DOMAIN expected \cup DOMAIN actual :
             LET isMissing == p \in SourceSet(test.missingItems)
                 isExtra == p \in SourceSet(test.extraItems)
                 isDifferent == p \in SourceSet(test.differentItems)
                 isEqualUnreported ==
                     /\ Reports(p) = 0
                     /\ p \in DOMAIN expected \cap DOMAIN actual
                     /\ ComparesEqual(expected[p], actual[p])
             IN /\ Reports(p) <= 1
                /\ isMissing => p \in DOMAIN expected \ DOMAIN actual
                /\ isExtra => p \in DOMAIN actual \ DOMAIN expected
                /\ isDifferent => p \in DOMAIN expected \cap DOMAIN actual
                /\ isMissing \/ isExtra \/ isDifferent \/ isEqualUnreported

\* C9: compareManifests returns isEqual = true if and only if it added no
\* Missing, no Extra and no Different item.
C9_IsEqualIffNoItems ==
    Compared =>
        (isEqual <=> /\ test.missingItems = <<>>
                     /\ test.extraItems = <<>>
                     /\ test.differentItems = <<>>)

Rank(p) == CHOOSE i \in 1..Len(SortedPaths) : SortedPaths[i] = p
SortedBySource(list) ==
    \A i, j \in 1..Len(list) : i < j => Rank(list[i].source) <= Rank(list[j].source)

\* C10: the Missing, Extra and Different lists a comparison produces are
\* ordered by source path, whatever the iteration order of the split maps.
C10_ListsSorted ==
    Compared =>
        /\ SortedBySource(test.missingItems)
        /\ SortedBySource(test.extraItems)
        /\ SortedBySource(test.differentItems)

\* compareManifests has returned without an error.
ComparedOk == upc \in {"update", "validate", "done"}

\* The sources compareManifests finds on both sides, and their contents.
ExpectedContent(p) == splitManifest(expectedManifest)[p]
ActualContent(p) == splitManifest(actualManifest)[p]
BothSides == DOMAIN splitManifest(expectedManifest) \cap DOMAIN splitManifest(actualManifest)

\* A line matches one of the compiled ignore patterns.
Ignored(line) ==
    \E i \in 1..Len(ignoreExpressions) : MatchString(ignoreExpressions[i], line)
Kept(text) == SelectSeq(text, LAMBDA l : ~Ignored(l))
Removed(text) == SelectSeq(text, LAMBDA l : Ignored(l))

\* C11: a normalization failure on a source present on both sides never
\* fails the comparison; the source is compared on the raw trimmed texts
\* of both sides (ignored lines removed) and is reported Different exactly
\* when these differ.
C11_RawFallback ==
    /\ ~(upc = "failed" /\ runErr = "comparing manifests")
    /\ Compared =>
         \A p \in BothSides :
            (normalizeYAML(ExpectedContent(p)).err \/ normalizeYAML(ActualContent(p)).err)
            => (p \in SourceSet(test.differentItems)
                <=> Kept(TrimSpace(ExpectedContent(p))) # Kept(TrimSpace(ActualContent(p))))

\* The ignored-line trail of a comparison that visits the sources of both
\* sides in the order o: the removed lines of the expected, then of the
\* actual normalized text of each source.
RECURSIVE Trail(_, _)
Trail(o, i) ==
    IF i > Len(o) THEN <<>>
    ELSE Removed(normalizeYAML(ExpectedContent(o[i])).text)
         \o Removed(normalizeYAML(ActualContent(o[i])).text)
         \o Trail(o, i + 1)

\* C12: for a source on both sides the equality test is made on the
\* normalized texts without the lines matching an ignore pattern, so a
\* Different item is emitted exactly when the kept lines differ, and
\* every removed line is on the ignored-line trail.
C12_IgnoreFiltering ==
    ComparedOk =>
        /\ \A p \in BothSides :
             (Kept(normalizeYAML(ExpectedContent(p)).text)
                  = Kept(normalizeYAML(ActualContent(p)).text))
             <=> p \notin SourceSet(test.differentItems)
        /\ \E o \in Orders(BothSides) : test.ignoredLines = Trail(o, 1)

\* `a: 1` against `a: 2` with the pattern ^a: : equal, both lines on the
\* trail, no Different item.
C12_Witness ==
    /\ ComparedOk
    /\ ignoreExpressions = <<"^a:">>
    /\ BothSides = {"a.yaml"}
    /\ ExpectedContent("a.yaml") = <<"a: 1">>
    /\ ActualContent("a.yaml") = <<"a: 2">>
    /\ isEqual
    /\ test.differentItems = <<>>
    /\ test.ignoredLines = <<"a: 1", "a: 2">>

\* C13: a Different item carries the normalized expected and actual texts
\* of its source, ignored lines included.
C13_DifferentContent ==
    Compared =>
        \A k \in 1..Len(test.differentItems) :
            LET item == test.differentItems[k]
            IN /\ item.source \in BothSides
               /\ item.expected = normalizeYAML(ExpectedContent(item.source)).text
               /\ item.actual = normalizeYAML(ActualContent(item.source)).text

\* A Different item whose two texts hold ignored lines.
C13_Witness ==
    /\ ComparedOk
    /\ Len(test.differentItems) = 1
    /\ Kept(test.differentItems[1].expected) # test.differentItems[1].expected
    /\ Kept(test.differentItems[1].actual) # test.differentItems[1].actual

\* ------------------------------------------------------------------------
\* Properties of TextSpec
\* ------------------------------------------------------------------------
\* The labels of the sections that have a body line.
Labels ==
    {sections[k].path : k \in {j \in 1..Len(sections) : TrimSpace(sections[j].body) # <<>>}}

\* The trimmed bodies of the sections labelled p, from section k on, in
\* encounter order, a '---' line between two of them.
RECURSIVE JoinBodies(_, _)
JoinBodies(p, k) ==
    IF k > Len(sections) THEN <<>>
    ELSE LET body == TrimSpace(sections[k].body)
             rest == JoinBodies(p, k + 1)
         IN IF sections[k].path # p \/ body = <<>> THEN rest
            ELSE IF rest = <<>> THEN body
            ELSE body \o <<"---">> \o rest

\* C14: splitManifest of the concatenation of labelled sections has the
\* labels of the sections with a body line as its keys (none for the empty
\* input), and under each key the bodies of that label in encounter
\* order, separated by a '---' line.
C14_SplitRecombine ==
    items.done =>
        /\ DOMAIN items.value = Labels
        /\ \A p \in Labels : items.value[p] = JoinBodies(p, 1)
        /\ sections = <<>> => items.value = EmptyMap

\* Three sections: b.yaml twice around a section without a body.
C14_Witness ==
    /\ items.done
    /\ Len(sections) = 3
    /\ sections[1] = [path |-> "b.yaml", body |-> <<"a: 2">>]
    /\ sections[2] = [path |-> "a.yaml", body |-> <<>>]
    /\ sections[3] = [path |-> "b.yaml", body |-> <<"", "a: 1", "">>]
    /\ DOMAIN items.value = {"b.yaml"}
    /\ items.value["b.yaml"] = <<"a: 2", "---", "a: 1">>

RECURSIVE SortedSections(_)
SortedSections(i) ==
    IF i > Len(SortedPaths) THEN <<>>
    ELSE (IF SortedPaths[i] \in Labels
          THEN <<"---", Header(SortedPaths[i])>>
               \o normalizeYAML(JoinBodies(SortedPaths[i], 1)).text
          ELSE <<>>)
         \o SortedSections(i + 1)

\* C16: when it succeeds, normalizeManifest returns one section per
\* distinct source path, in ascending path order: a '---' line, the
\* '# Source: <path>' line, then the normalized documents of that path in
\* encounter order, separated by '---'.
C16_NormalizeManifest ==
    (normalized.done /\ ~normalized.err) => normalized.value = SortedSections(1)

\* b.yaml, a.yaml, b.yaml in the input: a.yaml first in the output, the
\* two documents of b.yaml under one header.
C16_Witness ==
    /\ normalized.done
    /\ Len(sections) = 3
    /\ sections[1] = [path |-> "b.yaml", body |-> <<"a: 2">>]
    /\ sections[2] = [path |-> "a.yaml", body |-> <<"{a: 1}">>]
    /\ sections[3] = [path |-> "b.yaml", body |-> <<"a: 1">>]
    /\ normalized.value = <<"---", "# Source: a.yaml", "a: 1",
                            "---", "# Source: b.yaml", "a: 2", "---", "a: 1">>

\* ------------------------------------------------------------------------
\* Properties of TestSpec and Spec: errors and writes
\* ------------------------------------------------------------------------
\* The resources the validator reported as Invalid or Error.
NonValid == {i \in 1..Len(validated) : validated[i].status \in {"Invalid", "Error"}}

\* C17: a validation finding never makes Test.Run fail; when Test.Run is
\* over one finding is recorded for each resource reported Invalid or
\* Error, and the test is invalid exactly when a finding is recorded.
C17_ValidationFindings ==
    /\ ~(upc = "failed" /\ runErr = "creating signature for invalid resource")
    /\ upc = "done" => Len(test.validationErrors) = Cardinality(NonValid)
    /\ test.isValid <=> test.validationErrors = <<>>

\* Some --ignore pattern does not compile.
HasInvalidPattern == \E i \in 1..Len(ignorePatterns) : ignorePatterns[i] \in InvalidPatterns

\* C18: with an ignore pattern that does not compile the unit of work
\* does not start: nothing is rendered, actual.yaml is not written,
\* expected.yaml is not read, and the only failure is the compile error.
C18_CompileAtStartup ==
    HasInvalidPattern =>
        /\ upc \in {"loadValues", "failed"}
        /\ upc = "failed" => runErr = "compiling ignore patterns"
        /\ release = NoRelease
        /\ ~actualFile.exists
        /\ expectedManifest = <<>>

\* Fixture, render, ignore-pattern compile and file write errors.
HardErrors ==
    {"parsing test values file", "unifying values.yaml with schema",
     "reading expected.yaml file", "rendering chart", "compiling ignore patterns",
     "writing actual.yaml file for debug purposes",
     "writing updated expected.yaml file"}

\* C19: Test.Run fails only with a fixture, render, ignore-pattern compile
\* or write-back error.
C19_HardErrorsOnly == upc = "failed" => runErr \in HardErrors

\* C20: the expected.yaml of test i changes or is written only in the
\* step of the worker of test i that runs test.Run, and then for the
\* first and only time.
C20_SingleWriter ==
    [][\A i \in 1..Len(files) :
          (files'[i] # files[i] \/ written'[i] # written[i]) =>
              /\ wpc[i] = "running"
              /\ wpc'[i] = "sent"
              /\ written[i] = 0
              /\ written'[i] = 1]_vars

\* An update run of two tests is over: each fixture was written once.
C20_Witness ==
    /\ mainpc = "exited"
    /\ isUpdate
    /\ written = <<1, 1>>
    /\ files[1] = FileOf(<<"---", "# Source: a.yaml", "a: 1">>)
    /\ files[2] = files[1]

\* ------------------------------------------------------------------------
\* Properties of the reports
\* ------------------------------------------------------------------------
\* Number of tests of the suite with the update type u.
Tally(u) == Count(tests, {u})

\* A number of the summary line, when printed, is the tally.
PrintedAs(number, tally) == number # NotPrinted => number = tally

\* C21: the update summary prints the classification tallies: unchanged
\* is the number of None, formatting of Formatting, semantic of Semantic,
\* updated is Formatting + Semantic, and "all expected files unchanged" is
\* printed only when no test is Formatting or Semantic.
C21_SummaryTallies ==
    (mainpc = "exited" /\ isUpdate /\ fatal = "" /\ Len(tests) > 0) =>
        /\ PrintedAs(summary.unchanged, Tally("none"))
        /\ PrintedAs(summary.formatting, Tally("formatting"))
        /\ PrintedAs(summary.semantic, Tally("semantic"))
        /\ PrintedAs(summary.updated, Tally("formatting") + Tally("semantic"))
        /\ summary.message = "All expected files unchanged"
               => Tally("formatting") + Tally("semantic") = 0

\* C22: a test classified Formatting has the same sources in the stored
\* expected manifest and in the actual manifest, with the same normalized
\* content source by source.
C22_FormattingKeepsContent ==
    (Classified /\ test.updateType = "formatting") =>
        /\ DOMAIN splitManifest(expectedManifest) = DOMAIN splitManifest(actualManifest)
        /\ \A p \in BothSides :
             /\ ~normalizeYAML(ExpectedContent(p)).err
             /\ ~normalizeYAML(ActualContent(p)).err
             /\ normalizeYAML(ExpectedContent(p)).text = normalizeYAML(ActualContent(p)).text

\* C23: in update mode the banner of a reported test is "nothing to
\* update" exactly when the test is None, "normalized formatting" exactly
\* when it is Formatting, and an "updated expected file" banner only when
\* the expected.yaml of the test was written.
C23_UpdateBanner ==
    isUpdate =>
        \A k \in 1..Len(banners) :
            LET t == tests[reported[k]]
            IN /\ banners[k] = "Nothing to update in expected file"
                     <=> t.updateType = "none"
               /\ banners[k] = "Normalized formatting in expected file"
                     <=> t.updateType = "formatting"
               /\ banners[k] \in {"Updated expected file",
                                  "Updated expected file with content changes"}
                     => written[reported[k]] > 0

\* C24: an update run of a test without expected.yaml does not fail on
\* the missing file, and when it is over the file exists and holds the
\* rendered manifest.
C24_FirstGeneration ==
    test.isUpdate =>
        /\ ~(upc = "failed" /\ runErr = "reading expected.yaml file")
        /\ upc = "done" => (expectedFile.exists /\ expectedFile.data = TextToWrite)

Canonical(text) == TrimSpace(EncodeLines(text))

C26_Ownership ==
    [][\A i \in DOMAIN tests \cap DOMAIN tests' :
          tests'[i] # tests[i] =>
              \/ /\ wpc[i] = "running"
                 /\ wpc'[i] = "sent"
                 /\ results[i] = <<>>
              \/ /\ wpc[i] \in {"sent", "done"}
                 /\ results[i] = <<i>>
                 /\ results'[i] = <<>>
                 /\ reported' = Append(reported, i)
                 /\ wpc' = wpc]_vars

\* Test 1 was written by its worker, then emptied of its ignored lines by
\* the consumer loop, while the worker of test 2 is at work on test 2.
C26_Witness ==
    /\ Len(tests) = 2
    /\ reported = <<1>>
    /\ tests[1].updateType = "semantic"
    /\ wpc[2] = "running"
    /\ tests[2] = NewTest(2, isUpdate)

\* C27: no send finds its channel full; the consumer loop returns, with an
\* error or after as many reports as there are tests; and every admitted
\* worker sends once and releases the semaphore, unless the process exits
\* first.
C27_NoBlockedSend ==
    /\ Len(e) <= ErrorCapacity(TotalLength)
    /\ \A i \in DOMAIN results : Len(results[i]) <= SlotCapacity
    /\ \A i \in DOMAIN wpc :
         /\ wpc[i] = "running" => Len(e) < ErrorCapacity(TotalLength) /\ results[i] = <<>>
         /\ wpc[i] \in {"sent", "done"} =>
              Cardinality({k \in DOMAIN finished : finished[k].test = i}) = 1
    /\ mainpc = "returned" => fatal # "" \/ Len(reported) = TotalLength

Admitted(i) == i <= Len(files) /\ wpc[i] \in {"running", "sent"}

Released(i) == i <= Len(files) /\ wpc[i] = "done"

C27_Terminates ==
    /\ []C27_NoBlockedSend
    /\ (mainpc = "run") ~> (mainpc \in {"returned", "exited"})
    /\ \A i \in 1..MaxTests : Admitted(i) ~> (Released(i) \/ mainpc = "exited")
    /\ (mainpc = "run") ~> (semaphore = 0 \/ mainpc = "exited")

\* The consumer loop has returned the error of one worker; the error of
\* the other worker stays in e, and both workers have released.
C27_Witness ==
    /\ mainpc = "returned"
    /\ fatal # ""
    /\ Len(e) = 1
    /\ Len(wpc) = 2
    /\ \A i \in DOMAIN wpc : wpc[i] = "done"
    /\ semaphore = 0

\* ------------------------------------------------------------------------
\* Update mode
\* ------------------------------------------------------------------------
\* Test.Run has called SetUpdateType.
AfterClassification ==
    /\ test.isUpdate
    /\ \/ upc \in {"validate", "done"}
       \/ /\ upc = "failed"
          /\ runErr \in {"initializing validator", "creating signature for invalid resource"}

\* C28: in update mode, once the update type is set, it is "semantic"
\* exactly when isSame is false, "formatting" and "none" come with isSame
\* true, and this run has written expected.yaml exactly when the update
\* type is not "none".
C28_UpdateTypeInvariant ==
    AfterClassification =>
        /\ test.updateType \in {"semantic", "formatting", "none"}
        /\ test.updateType = "semantic" <=> ~test.isSame
        /\ test.updateType \in {"formatting", "none"} => test.isSame
        /\ writes = 1 <=> test.updateType # "none"
        /\ writes \in {0, 1}

\* A formatting update: the manifests compare equal, the flow-style fixture
\* was rewritten, and the validator then failed.
C28_Witness ==
    /\ AfterClassification
    /\ upc = "failed"
    /\ test.updateType = "formatting"
    /\ test.isSame
    /\ writes = 1
    /\ expectedManifest = <<"---", "# Source: a.yaml", "{a: 1}">>
    /\ expectedFile = FileOf(<<"---", "# Source: a.yaml", "a: 1">>)

\* The update run of Test.Run is over without error.
Updated == test.isUpdate /\ upc = "done"

\* The runs of Test.Run in update mode that follow it: the same render and
\* the same ignore patterns, on the expected.yaml the first run has left.
SecondRuns ==
    {TestRun(NewTest(test.name, TRUE), expectedFile, saveActual, ignorePatterns,
             RunEnv("", release, o, [initErr |-> FALSE, results |-> <<>>])) :
        o \in CompareOrders(expectedFile.data, actualManifest)}

IsFixedPoint(r) ==
    /\ r.err = ""
    /\ r.test.isSame
    /\ r.test.updateType = "none"
    /\ ~r.wrote
    /\ r.expectedFile = expectedFile

\* C29: a second update run on the same render and ignore patterns compares
\* equal, is classified "none" and does not write expected.yaml.
C29_FixedPoint == Updated => \A r \in SecondRuns : IsFixedPoint(r)

\* ------------------------------------------------------------------------
\* Reports
\* ------------------------------------------------------------------------
\* The errors with which the unit of work of test i has ended.
Outcomes(i) == {finished[k].error : k \in {j \in DOMAIN finished : finished[j].test = i}}

\* C30: a test is reported at most once, and only when its unit of work
\* has ended without error; one banner is printed per report.
C30_ReportedOnceAfterSuccess ==
    /\ \A k1, k2 \in DOMAIN reported : reported[k1] = reported[k2] => k1 = k2
    /\ \A k \in DOMAIN reported :
         /\ Outcomes(reported[k]) = {""}
         /\ wpc[reported[k]] \in {"sent", "done"}
         /\ results[reported[k]] = <<>>
    /\ Len(banners) = Len(reported)

\* Test 1 is reported; the unit of work of test 2 has failed and the
\* consumer loop has returned its error.
C30_Witness ==
    /\ reported = <<1>>
    /\ Len(tests) = 2
    /\ Outcomes(2) = {"rendering chart"}
    /\ mainpc = "returned"
    /\ fatal = "rendering chart"
====
